---- MODULE Spec2Model ----
(***************************************************************************)
(* The two placeholder packages of sdks/python: authvader_sdk and          *)
(* authvital_sdk.  Each is one module whose body binds a docstring,        *)
(* __version__, __author__ and a module-level __getattr__ that raises      *)
(* NotImplementedError.  The model is the module namespace of each         *)
(* package and attribute lookups on it issued from concurrent callers.     *)
(*                                                                         *)
(* A string literal is modelled as the tuple of its fragments, cut where   *)
(* the brand name and the project URL occur, so that two strings can be    *)
(* compared up to the brand.                                               *)
(***************************************************************************)
EXTENDS Naturals, Sequences, FiniteSets

VARIABLES ns, pc, req, log, netRequests, created

vars == <<ns, pc, req, log, netRequests, created>>

(* ------------------------------ bounds --------------------------------- *)

\* Lookups issued in one behaviour (completed and in flight).
MaxLookups == 3

\* Concurrent callers.
Threads == {"t1", "t2"}

\* The two packages.
Pkgs == {"authvader_sdk", "authvital_sdk"}

\* Names no package binds, as a caller of an identity SDK would ask for them.
UndefinedNames == {"Client", "get_valid_token", "send", "__all__"}

\* Names the module body binds (and a caller may read).
BoundNames == {"__doc__", "__version__", "__author__", "__getattr__"}

LookupNames == BoundNames \cup UndefinedNames

(* --------------------------- string literals --------------------------- *)

\* The brand name in a package's literals.
Brand(pkg) == IF pkg = "authvader_sdk" THEN "AuthVader" ELSE "AuthVital"

\* The project URL in a package's literals.
Url(pkg) ==
    IF pkg = "authvader_sdk" THEN "https://github.com/authvader/authvader"
    ELSE "https://github.com/authvital/authvital"

\* The module docstring, lines 1-7.
Docstring(pkg) ==
    << "\n", Brand(pkg), " SDK for Python\n\nOfficial Python SDK for ",
       Brand(pkg), " Identity Platform.\n", Url(pkg),
       "\n\nStatus: Coming Soon\n" >>

\* The version strings of the two packages drifting apart.
VersionDrift(pkg) == IF pkg = "authvader_sdk" THEN << "0.0.2" >> ELSE << "0.0.1" >>

\* __version__ = "0.0.1"
__version__(pkg) == << "0.0.1" >>

\* __author__ = "<Brand> Contributors"
__author__(pkg) == << Brand(pkg), " Contributors" >>

\* The two adjacent f-strings of the raise statement, concatenated.
Message(pkg) ==
    << Brand(pkg), " Python SDK is coming soon! ", "Follow ", Url(pkg),
       " for updates." >>

\* A string with the brand name and the URL replaced by placeholders.
Unbrand(s) ==
    [i \in DOMAIN s |->
        IF s[i] \in {Brand(p) : p \in Pkgs} THEN "<brand>"
        ELSE IF s[i] \in {Url(p) : p \in Pkgs} THEN "<url>"
        ELSE s[i]]

(* ------------------------------ the module ----------------------------- *)

\* A module body whose author line binds a misspelt name.
ModuleBodyNoAuthor(pkg) ==
    [n \in BoundNames \ {"__author__"} |->
        CASE n = "__doc__"     -> [kind |-> "str", val |-> Docstring(pkg)]
          [] n = "__version__" -> [kind |-> "str", val |-> __version__(pkg)]
          [] n = "__getattr__" -> [kind |-> "function", val |-> << "__getattr__" >>]]

\* The namespace the module body leaves behind when the package is imported.
ModuleBody(pkg) ==
    [n \in BoundNames |->
        CASE n = "__doc__"     -> [kind |-> "str", val |-> Docstring(pkg)]
          [] n = "__version__" -> [kind |-> "str", val |-> __version__(pkg)]
          [] n = "__author__"  -> [kind |-> "str", val |-> __author__(pkg)]
          [] n = "__getattr__" -> [kind |-> "function", val |-> << "__getattr__" >>]]

\* A handler that follows the usual module __getattr__ idiom for dunder names.
GetattrDunderAttributeError(pkg, name) ==
    [kind     |-> IF name = "__all__" THEN "AttributeError" ELSE "NotImplementedError",
     val      |-> Message(pkg),
     requests |-> 0,
     creates  |-> {},
     binds    |-> << >>]

\* A handler that asks the project URL for updates before raising.
GetattrPhonesHome(pkg, name) ==
    [kind     |-> "NotImplementedError",
     val      |-> Message(pkg),
     requests |-> 1,
     creates  |-> {},
     binds    |-> << >>]

\* A handler that starts a token refresh for get_valid_token before raising.
GetattrRefreshes(pkg, name) ==
    [kind     |-> "NotImplementedError",
     val      |-> Message(pkg),
     requests |-> IF name = "get_valid_token" THEN 1 ELSE 0,
     creates  |-> {},
     binds    |-> << >>]

\* A handler that memoises the failure under the requested name.
GetattrCaches(pkg, name) ==
    [kind     |-> "NotImplementedError",
     val      |-> Message(pkg),
     requests |-> 0,
     creates  |-> {},
     binds    |-> << name, [kind |-> "str", val |-> Message(pkg)] >>]

\* A handler whose message names the attribute that was asked for.
GetattrEchoesName(pkg, name) ==
    [kind     |-> "NotImplementedError",
     val      |-> Message(pkg) \o << name >>,
     requests |-> 0,
     creates  |-> {},
     binds    |-> << >>]

\* def __getattr__(name): the outcome of the call and everything it does.
\* The body is one raise statement: it issues no request, builds no object
\* and binds no name.
__getattr__(pkg, name) ==
    [kind     |-> "NotImplementedError",
     val      |-> Message(pkg),
     requests |-> 0,
     creates  |-> {},
     binds    |-> << >>]

(* ------------------------------ behaviour ------------------------------ *)

Issued == Len(log) + Cardinality({t \in Threads : pc[t] # "idle"})

NoReq == [pkg |-> "", name |-> "", start |-> 0]

Init ==
    /\ ns = [p \in Pkgs |-> ModuleBody(p)]
    /\ pc = [t \in Threads |-> "idle"]
    /\ req = [t \in Threads |-> NoReq]
    /\ log = << >>
    /\ netRequests = 0
    /\ created = {}

\* pkg.name where name is in the module's namespace: the bound value is
\* returned and __getattr__ is not consulted.
LookupHit(t, pkg, name) ==
    /\ pc[t] = "idle"
    /\ Issued < MaxLookups
    /\ name \in DOMAIN ns[pkg]
    /\ log' = Append(log, [pkg |-> pkg, name |-> name,
                           kind |-> ns[pkg][name].kind,
                           val |-> ns[pkg][name].val,
                           via |-> "dict", start |-> Len(log)])
    /\ UNCHANGED <<ns, pc, req, netRequests, created>>

\* pkg.name where name is not in the namespace: the lookup falls back to the
\* module's __getattr__, which is about to be called.
LookupMiss(t, pkg, name) ==
    /\ pc[t] = "idle"
    /\ Issued < MaxLookups
    /\ name \notin DOMAIN ns[pkg]
    /\ "__getattr__" \in DOMAIN ns[pkg]
    /\ pc' = [pc EXCEPT ![t] = "getattr"]
    /\ req' = [req EXCEPT ![t] = [pkg |-> pkg, name |-> name, start |-> Len(log)]]
    /\ UNCHANGED <<ns, log, netRequests, created>>

\* The call of __getattr__(name) the fallback makes, and its outcome.
CallGetattr(t) ==
    /\ pc[t] = "getattr"
    /\ LET r == req[t]
           e == __getattr__(r.pkg, r.name)
       IN /\ log' = Append(log, [pkg |-> r.pkg, name |-> r.name,
                                 kind |-> e.kind, val |-> e.val,
                                 via |-> "getattr", start |-> r.start])
          /\ netRequests' = netRequests + e.requests
          /\ created' = created \cup e.creates
          /\ ns' = [ns EXCEPT ![r.pkg] =
                       IF e.binds = << >> THEN @
                       ELSE [n \in DOMAIN @ \cup {e.binds[1]} |->
                                IF n = e.binds[1] THEN e.binds[2] ELSE @[n]]]
    /\ pc' = [pc EXCEPT ![t] = "idle"]
    /\ req' = [req EXCEPT ![t] = NoReq]

Next ==
    \/ \E t \in Threads, p \in Pkgs, n \in LookupNames : LookupHit(t, p, n)
    \/ \E t \in Threads, p \in Pkgs, n \in LookupNames : LookupMiss(t, p, n)
    \/ \E t \in Threads : CallGetattr(t)

Spec == Init /\ [][Next]_vars

(* ------------------------------ properties ----------------------------- *)

Done == DOMAIN log

\* Lookups i < j of the log were in flight together: j was issued before i
\* completed.
Concurrent(i, j) == i < j /\ log[j].start < i

NIE == "NotImplementedError"

\* C1: in both packages, a lookup of a name the module does not define ends
\* in NotImplementedError, whatever the name and whatever was looked up
\* before: it returns no value and raises no other kind of error.
C1_UndefinedRaisesNotImplemented ==
    \A i \in Done :
        log[i].name \in UndefinedNames =>
            /\ log[i].via = "getattr"
            /\ log[i].kind = NIE

C1_Witness ==
    \E i, j \in Done :
        /\ 1 < i /\ i < j
        /\ log[i].pkg = "authvader_sdk" /\ log[j].pkg = "authvital_sdk"
        /\ log[i].name = "__all__" /\ log[j].name = "Client"
        /\ log[i].kind = NIE /\ log[j].kind = NIE

C6_VersionAndAuthor ==
    \A i \in Done :
        /\ log[i].name = "__version__" =>
              /\ log[i].via = "dict" /\ log[i].kind = "str"
              /\ log[i].val = << "0.0.1" >>
        /\ log[i].name = "__author__" =>
              /\ log[i].via = "dict" /\ log[i].kind = "str"
              /\ log[i].val =
                    IF log[i].pkg = "authvader_sdk"
                    THEN << "AuthVader", " Contributors" >>
                    ELSE << "AuthVital", " Contributors" >>

C6_Witness ==
    /\ Len(log) >= 3
    /\ log[1].kind = NIE
    /\ log[2].name = "__version__" /\ log[2].val = << "0.0.1" >>
    /\ log[3].name = "__author__" /\ log[3].pkg = log[1].pkg
    /\ log[3].kind = "str"

\* C7: after any sequence of lookups on either package no network request
\* has been issued and no Credential, Token or client object exists.
C7_NoNetworkNoObjects ==
    /\ netRequests = 0
    /\ created = {}

C7_Witness ==
    /\ netRequests = 0 /\ created = {}
    /\ \E i, j \in Done :
          /\ log[i].pkg = "authvader_sdk" /\ log[j].pkg = "authvital_sdk"
          /\ log[i].name = "send" /\ log[j].name = "Client"
          /\ log[i].via = "getattr" /\ log[j].via = "getattr"

\* C8: a lookup that ends in NotImplementedError leaves the namespace as the
\* module body left it (no name added or rebound), so a later lookup of the
\* same undefined name ends in NotImplementedError again.
C8_NamespaceUnchanged ==
    /\ \A p \in Pkgs :
          /\ DOMAIN ns[p] = BoundNames
          /\ ns[p] = ModuleBody(p)
    /\ \A i, j \in Done :
          (i < j /\ log[i].pkg = log[j].pkg /\ log[i].name = log[j].name
               /\ log[i].kind = NIE) =>
              log[j].kind = NIE /\ log[j].via = "getattr"

C8_Witness ==
    /\ Len(log) >= 3
    /\ log[1].pkg = log[3].pkg /\ log[1].name = log[3].name
    /\ log[1].name = "get_valid_token"
    /\ log[2].name = "send"
    /\ log[1].kind = NIE /\ log[3].kind = NIE
    /\ \A p \in Pkgs : DOMAIN ns[p] = BoundNames

\* C9: within one package, the handler's outcome is the same for any two
\* names and at any two times (same error kind, same message), and the
\* message never contains the requested name.
C9_OutcomeIndependentOfName ==
    \A i \in Done :
        log[i].via = "getattr" =>
            /\ \A k \in DOMAIN log[i].val : log[i].val[k] # log[i].name
            /\ \A j \in Done :
                  (log[j].via = "getattr" /\ log[j].pkg = log[i].pkg) =>
                      log[j].kind = log[i].kind /\ log[j].val = log[i].val

C9_Witness ==
    \E i, j, k \in Done :
        /\ i < j /\ j < k
        /\ log[i].pkg = log[j].pkg /\ log[j].pkg = log[k].pkg
        /\ log[i].name = "Client" /\ log[j].name = "send" /\ log[k].name = "Client"
        /\ log[i].val = log[j].val /\ log[j].val = log[k].val

\* The same name looked up on the two packages.
SideBySide(i, j) ==
    /\ log[i].pkg = "authvader_sdk" /\ log[j].pkg = "authvital_sdk"
    /\ log[i].name = log[j].name

\* C10 as stated: on the same lookups both packages give the same outcome
\* kind and the same __version__, and what they return differs only in the
\* brand name and URL inside the author string and the error message.
C10_Original ==
    \A i, j \in Done :
        SideBySide(i, j) =>
            /\ log[i].kind = log[j].kind
            /\ log[i].name = "__version__" => log[i].val = log[j].val
            /\ log[i].val # log[j].val =>
                  /\ log[i].name = "__author__" \/ log[i].kind = NIE
                  /\ Unbrand(log[i].val) = Unbrand(log[j].val)

\* C10 amended: on the same lookups both packages give the same outcome kind
\* and the same __version__, and what they return differs only in the brand
\* name and URL inside the author string, the module docstring and the error
\* message.
C10_EquivalentUpToBrand ==
    \A i, j \in Done :
        SideBySide(i, j) =>
            /\ log[i].kind = log[j].kind
            /\ log[i].name = "__version__" => log[i].val = log[j].val
            /\ log[i].val # log[j].val =>
                  /\ log[i].name \in {"__author__", "__doc__"} \/ log[i].kind = NIE
                  /\ Unbrand(log[i].val) = Unbrand(log[j].val)

C10_Witness ==
    \E i, j \in Done :
        /\ SideBySide(i, j)
        /\ log[i].name = "__author__"
        /\ log[i].val # log[j].val
        /\ Unbrand(log[i].val) = Unbrand(log[j].val)
        /\ \E k \in Done : log[k].kind = NIE

====
